---- MODULE Spec2Model ----
(***************************************************************************)
(* TikTokLive-Server: the room pool (pool.py), the room (room.py), the     *)
(* client store (client_store.py), the WebSocket manager (ws_manager.py)   *)
(* and the /ws endpoint (app.py), as one state machine.                    *)
(*                                                                         *)
(* asyncio is cooperative: a coroutine runs without interruption until it  *)
(* awaits real I/O.  Every action below is one such uninterrupted stretch  *)
(* of one task: from a resumption (or the task's start) to its next        *)
(* suspension.  The I/O awaits are                                         *)
(*   client.is_live, client.start          (TikTokRoom.create)             *)
(*   ws.send_text                          (TikTokRoom._send_message)      *)
(*   connection.disconnect                 (TikTokRoom.kill)               *)
(*   websocket.receive                     (ws_endpoint)                   *)
(*   asyncio.sleep                         (_clean_up_loop)                *)
(*                                                                         *)
(* Identities.  One ws_endpoint invocation (a viewer v) makes at most one  *)
(* RoomClient and at most one TikTokRoom, so the RoomClient made for       *)
(* viewer v and the TikTokRoom whose creation v awaited are both named v.  *)
(* The WebSocket of viewer v is named v as well.                           *)
(*                                                                         *)
(* pool.py:48 passes authenticate_ws to TikTokRoom.create, whose signature *)
(* (room.py:210-214) has no such parameter; the model follows the body of  *)
(* create as written and takes the call as binding unique_id and           *)
(* session_id.  config.SESSION_ID defaults to None (config.py:16), so the  *)
(* fetch_sub_info branch of create is not taken.                           *)
(***************************************************************************)
EXTENDS Integers, Sequences, FiniteSets, TLC

\* ---------------------------------------------------------------- bounds
\* Viewers that connect in a run in which the upstream handlers and the sweep
\* take part (Spec, FairSpec).
MaxViewers == 2

\* Viewers that connect in a run of joins and leaves alone (JoinLeaveSpec).
MaxCrowd == 3

\* Domain events the upstream connections emit in a run.
MaxEvents == 1

\* Terminal events (LiveEndEvent, DisconnectEvent) they emit in a run.
MaxEnds == 1

\* send_text and disconnect calls that fail in a run.
MaxFails == 1

\* Direct calls of TikTokRoom.kill in a run of KillSpec.
MaxKills == 1

\* RoomClients the ClientStore holds at a time in a run of StoreSpec.
MaxStore == 3

Viewers == 1..MaxCrowd

Active == 1..MaxViewers

Tasks == 1..(MaxEvents + MaxEnds)

StreamIds == {"alice", "bob"}

Accounts == {"k1", "k2"}

\* The upstream domain events (room.py:154-155): get_type() and to_dict().
DomainEvents == {[name |-> "LikeEvent", data |-> "d1"]}

None == 0

\* How an awaited ws.send_text ends (room.py:202-207):
\*   ok            the text frame was handed to the transport
\*   closed_error  RuntimeError whose text holds "close message has been sent"
\*   other_error   an exception that is no RuntimeError
\* (a RuntimeError with another text is dropped by the same except clause and
\* leaves no mark on the program's state).
Outcomes == {"ok", "closed_error", "other_error"}

VARIABLES
    pc,         \* viewer -> position of its ws_endpoint task
    vuid,       \* viewer -> unique_id query parameter
    vacct,      \* viewer -> api_key query parameter (the account name)
    err,        \* viewer -> exception that left ws_manager.join ("none" if none)
    out,        \* viewer -> outcome of the send_text its task is suspended in
    kroom,      \* viewer -> room whose kill() its leave is suspended in
    croom,      \* RoomClient -> RoomClient.room (None: no RoomClient was made)
    closed,     \* WebSocket -> ws.client_state == ClientState.CLOSED
    log,        \* WebSocket -> text frames handed to it, in order
    rooms,      \* TikTokRoomPool._rooms: insertion-ordered <<unique_id, room>> pairs
    conn,       \* room -> "none" (no such room), "connected", "disconnected"
    clients,    \* room -> TikTokRoom.__clients, in insertion order
    discCalls,  \* room -> number of connection.disconnect() invocations
    discErr,    \* rooms on which a connection.disconnect() raised
    emptied,    \* rooms whose client dict was emptied by TikTokRoomPool.leave
    store,      \* ClientStore._clients: account -> list of RoomClient
    tasks,      \* upstream event handler invocations
    ntask,      \* number of handler invocations started
    sweep,      \* the _clean_up_loop task
    call,       \* the last direct call of ClientStore.add / remove (StoreSpec)
    nfail       \* number of send_text failures so far

vars == <<pc, vuid, vacct, err, out, kroom, croom, closed, log, rooms, conn,
          clients, discCalls, discErr, emptied, store, tasks, ntask, sweep, nfail,
          call>>

\* ------------------------------------------------------------ envelopes
\* room.py:38-42 ControlEvent; src names the sender (0: the join path).
ControlEvent(name, uid, src) ==
    [type |-> "room_event", name |-> name, unique_id |-> uid, data |-> "{}", src |-> src]

\* A forwarder that sends the event without its payload.
TikTokEventNoData(name, data, uid, src) ==
    [type |-> "tiktok_event", name |-> name, unique_id |-> uid, data |-> "{}", src |-> src]

\* room.py:30-35 TikTokEvent, as built by event_forwarder (room.py:154-165).
TikTokEvent(name, data, uid, src) ==
    [type |-> "tiktok_event", name |-> name, unique_id |-> uid, data |-> data, src |-> src]

\* room.py:299 the name of the control envelope leave() sends.
LeaveName(end) == IF end THEN "end" ELSE "leave"

\* kill calls leave without end=True.
HandlerEndNotInKill(kind) == kind = "end"

\* room.py:173-185,328 the `end` argument passed to leave() by each terminal
\* handler and by kill.
HandlerEnd(kind) == kind \in {"end", "kill"}

\* ------------------------------------------------------- _send_message
\* room.py:198-199 the early return on a closed WebSocket.
SendSkipped(cl, ws) == cl[ws]

\* room.py:201-203 send_text hands the frame over unless it fails.
Enqueue(lg, ws, msg, o) == IF o = "ok" THEN [lg EXCEPT ![ws] = Append(@, msg)] ELSE lg

\* room.py:204-207 the handler marks the WebSocket closed on the close error.
MarkClosed(cl, ws, o) == IF o = "closed_error" THEN [cl EXCEPT ![ws] = TRUE] ELSE cl

\* room.py:204 only RuntimeError is caught.
SendRaises(o) == o = "other_error"

\* ------------------------------------------------------ TikTokRoomPool._rooms
RECURSIVE RoomsGet(_, _)
\* pool.py:46,74 self._rooms.get(unique_id)
RoomsGet(rs, uid) ==
    IF rs = <<>> THEN None
    ELSE IF Head(rs)[1] = uid THEN Head(rs)[2] ELSE RoomsGet(Tail(rs), uid)

\* pool.py:49 self._rooms[unique_id] = room (an existing key keeps its position)
RoomsSet(rs, uid, r) ==
    IF \E i \in 1..Len(rs) : rs[i][1] = uid
    THEN [i \in 1..Len(rs) |-> IF rs[i][1] = uid THEN <<uid, r>> ELSE rs[i]]
    ELSE Append(rs, <<uid, r>>)

\* A clean-up that forgets to drop the entry.
RoomsPopKept(rs, uid) == rs

\* pool.py:112 self._rooms.pop(room.unique_id, None)
RoomsPop(rs, uid) == SelectSeq(rs, LAMBDA p : p[1] # uid)

\* pool.py:122 self._rooms.copy().values()
RoomsValues(rs) == [i \in 1..Len(rs) |-> rs[i][2]]

\* A join that stores the room before create has returned.
RoomsAfterCreateEager(rs, uid, r, ok) == RoomsSet(rs, uid, r)

\* pool.py:46-49 the registry after create returned (ok) or raised (~ok).
RoomsAfterCreate(rs, uid, r, ok) == IF ok THEN RoomsSet(rs, uid, r) ELSE rs

\* ------------------------------------------------------------- TikTokRoom
\* room.py:101-109 _clients: a copy of the dict, safe to iterate.
Snapshot(cs) == cs

\* room.py:307-316 clients: the number of clients in the room.
ClientCount(cs, r) == Len(Snapshot(cs[r]))

\* room.py:268 self.__clients[client.id] = client
ClientsAdd(cs, c) == IF \E i \in 1..Len(cs) : cs[i] = c THEN cs ELSE Append(cs, c)

\* room.py:305 self.__clients.pop(client.id, None)
ClientsPop(cs, gone) == SelectSeq(cs, LAMBDA c : c \notin gone)

Members(r) == {clients[r][i] : i \in 1..Len(clients[r])}

\* ------------------------------------------------------------ ClientStore
\* client_store.py:13-18 add
StoreAdd(st, a, c) ==
    [x \in DOMAIN st \cup {a} |->
        IF x = a THEN (IF a \in DOMAIN st THEN Append(st[a], c) ELSE <<c>>) ELSE st[x]]

\* client_store.py:25 list.remove: drops the first occurrence.
ListRemove(l, c) ==
    LET i == CHOOSE j \in 1..Len(l) : l[j] = c /\ \A k \in 1..(j - 1) : l[k] # c
    IN  [j \in 1..(Len(l) - 1) |-> IF j < i THEN l[j] ELSE l[j + 1]]

\* The account keeps its entry, with an empty list, when its last client goes.
StoreRemoveKeepsEntry(st, a, c) ==
    IF a \notin DOMAIN st THEN st ELSE [st EXCEPT ![a] = ListRemove(st[a], c)]

\* client_store.py:20-28 remove
StoreRemove(st, a, c) ==
    IF a \notin DOMAIN st THEN st
    ELSE LET l == ListRemove(st[a], c)
         IN  IF l = <<>> THEN [x \in DOMAIN st \ {a} |-> st[x]]
             ELSE [st EXCEPT ![a] = l]

\* client_store.py:20-25 list.remove raises ValueError when the client is not listed.
StoreRemoveRaises(st, a, c) == a \in DOMAIN st /\ \A j \in 1..Len(st[a]) : st[a][j] # c

\* client_store.py:30-31 get_account
StoreGetAccount(st, a) == IF a \in DOMAIN st THEN st[a] ELSE <<>>

\* client_store.py:41-42 count
StoreCount(st, a) == Len(StoreGetAccount(st, a))

\* room.py:80-88 unique_id of a room: the unique_id its creator asked for.
RoomUid(r) == vuid[r]

\* ------------------------------------------------------------------ Init
NoCall == [op |-> "none", account |-> "-", client |-> None, known |-> FALSE]

IdleTask ==
    [kind |-> "none", room |-> None, name |-> "", data |-> "", queue |-> <<>>,
     cur |-> None, out |-> "ok", st |-> "idle", snap |-> <<>>, clean |-> TRUE]

\* app.py:41-44 the manager, its store and its pool (pool.py:24-25) are made at
\* start-up; the clean-up loop's first pass finds no room and sleeps.
Init ==
    /\ pc = [v \in Viewers |-> "init"]
    /\ vuid = [v \in Viewers |-> "-"]
    /\ vacct = [v \in Viewers |-> "-"]
    /\ err = [v \in Viewers |-> "none"]
    /\ out = [v \in Viewers |-> "ok"]
    /\ kroom = [v \in Viewers |-> None]
    /\ croom = [v \in Viewers |-> None]
    /\ closed = [v \in Viewers |-> FALSE]
    /\ log = [v \in Viewers |-> <<>>]
    /\ rooms = <<>>
    /\ conn = [v \in Viewers |-> "none"]
    /\ clients = [v \in Viewers |-> <<>>]
    /\ discCalls = [v \in Viewers |-> 0]
    /\ discErr = {}
    /\ emptied = {}
    /\ store = [a \in {} |-> <<>>]
    /\ tasks = [t \in Tasks |-> IdleTask]
    /\ ntask = 0
    /\ sweep = [pc |-> "sleep", queue |-> <<>>, cur |-> None, bad |-> {}]
    /\ nfail = 0
    /\ call = NoCall

\* A send may fail only while the failure budget lasts.
MayEnd(o) == o \in Outcomes /\ (o # "ok" => nfail < MaxFails)

\* So may a disconnect.
MayDisconnect(ok) == ok \/ nfail < MaxFails

NumTasks(kinds) == Cardinality({t \in Tasks : tasks[t].kind \in kinds})

\* ------------------------------------------------------------ ws_endpoint
\* The join promise is dropped without being awaited: no join envelope is sent.
JoinFramesNeverSent(lg, v, uid, o) == lg

\* room.py:271-277 the join envelope's _send_message, made by TikTokRoom.join
\* and started by the awaits of app.py:119, ws_manager.py:52 and pool.py:57.
JoinFrames(lg, v, uid, o) == Enqueue(lg, v, ControlEvent("join", uid, 0), o)

\* room.py:249-279 TikTokRoom.join, ws_manager.py:57-59 the store entry, and
\* app.py:119 `await promise`, which starts _send_message for the join envelope
\* and suspends in send_text.  The stretch from the registry lookup to that
\* suspension holds no await, so it is one step.
JoinRoom(v, uid, a, r, o) ==
    /\ clients' = [clients EXCEPT ![r] = ClientsAdd(@, v)]
    /\ croom' = [croom EXCEPT ![v] = r]
    /\ store' = StoreAdd(store, a, v)
    /\ IF SendSkipped(closed, v)
       THEN /\ pc' = [pc EXCEPT ![v] = "attached"]
            /\ UNCHANGED <<log, out, nfail>>
       ELSE /\ pc' = [pc EXCEPT ![v] = "join_sending"]
            /\ log' = JoinFrames(log, v, uid, o)
            /\ out' = [out EXCEPT ![v] = o]
            /\ nfail' = IF o = "ok" THEN nfail ELSE nfail + 1

\* app.py:82-108, ws_manager.py:47, pool.py:45-53: accept, then join.  With no
\* room under unique_id the task suspends in create's is_live (room.py:232-233).
\* Viewers are numbered in the order they connect; stream ids and account
\* names are interchangeable, so the first viewer's pick fixes their names.
Connect(v, uid, a, o) ==
    /\ pc[v] = "init"
    /\ \A w \in Viewers : w < v => pc[w] # "init"
    /\ v = 1 => uid = "alice" /\ a = "k1"
    /\ MayEnd(o)
    /\ vuid' = [vuid EXCEPT ![v] = uid]
    /\ vacct' = [vacct EXCEPT ![v] = a]
    /\ IF RoomsGet(rooms, uid) = None
       THEN /\ pc' = [pc EXCEPT ![v] = "is_live"]
            /\ o = "ok"
            /\ UNCHANGED <<clients, croom, store, log, out, nfail>>
       ELSE JoinRoom(v, uid, a, RoomsGet(rooms, uid), o)
    /\ UNCHANGED call
    /\ UNCHANGED <<err, kroom, closed, rooms, conn, discCalls, discErr, emptied,
                   tasks, ntask, sweep>>

\* room.py:232-237 is_live answered: not live raises UserOfflineError, which
\* leaves pool.join (pool.py:48), ws_manager.join (ws_manager.py:47) and
\* ws_endpoint (app.py:108) uncaught; live goes on to await client.start.
IsLiveDone(v, live) ==
    /\ pc[v] = "is_live"
    /\ pc' = [pc EXCEPT ![v] = IF live THEN "starting" ELSE "failed"]
    /\ err' = [err EXCEPT ![v] = IF live THEN "none" ELSE "UserOfflineError"]
    /\ rooms' = IF live THEN rooms ELSE RoomsAfterCreate(rooms, vuid[v], v, FALSE)
    /\ UNCHANGED call
    /\ UNCHANGED <<vuid, vacct, out, kroom, croom, closed, log, conn, clients,
                   discCalls, discErr, emptied, store, tasks, ntask, sweep, nfail>>

\* room.py:236-247 client.start returned or raised; pool.py:49-53 on return the
\* room is stored under unique_id and joined.
StartDone(v, ok, o) ==
    /\ pc[v] = "starting"
    /\ MayEnd(o)
    /\ rooms' = RoomsAfterCreate(rooms, vuid[v], v, ok)
    /\ IF ok
       THEN /\ conn' = [conn EXCEPT ![v] = "connected"]
            /\ JoinRoom(v, vuid[v], vacct[v], RoomsGet(rooms', vuid[v]), o)
            /\ err' = err
       ELSE /\ o = "ok"
            /\ pc' = [pc EXCEPT ![v] = "failed"]
            /\ err' = [err EXCEPT ![v] = "ConnectError"]
            /\ UNCHANGED <<conn, clients, croom, store, log, out, nfail>>
    /\ UNCHANGED call
    /\ UNCHANGED <<vuid, vacct, kroom, closed, discCalls, discErr, emptied,
                   tasks, ntask, sweep>>

\* app.py:119 the join envelope's send_text ended.  _send_message swallows a
\* RuntimeError (room.py:204-207); ws_manager.py:51-55 swallows anything else.
\* The endpoint then waits in receive (app.py:122-123).
JoinSendDone(v) ==
    /\ pc[v] = "join_sending"
    /\ closed' = MarkClosed(closed, v, out[v])
    /\ out' = [out EXCEPT ![v] = "ok"]
    /\ pc' = [pc EXCEPT ![v] = "attached"]
    /\ UNCHANGED call
    /\ UNCHANGED <<vuid, vacct, err, kroom, croom, log, rooms, conn, clients,
                   discCalls, discErr, emptied, store, tasks, ntask, sweep, nfail>>

\* app.py:103-105,123-126,138-141 the receive loop ends (the peer went away, or
\* recv saw the CLOSED mark): the finally block marks the WebSocket closed and
\* calls ws_manager.leave (ws_manager.py:61-71), which runs pool.leave
\* (pool.py:74-85), room.leave (room.py:295-305) and clean_up_room
\* (pool.py:99-107) up to kill's await of disconnect (room.py:327-331).
\* The WebSocket is closed by now, so leave's _send_message returns at once.
ViewerDisconnect(v) ==
    /\ pc[v] = "attached"
    /\ closed' = [closed EXCEPT ![v] = TRUE]
    /\ IF StoreRemoveRaises(store, vacct[v], v)
       THEN /\ pc' = [pc EXCEPT ![v] = "leave_raised"]
            /\ UNCHANGED <<store, clients, emptied, discCalls, kroom, log>>
       ELSE LET room == RoomsGet(rooms, vuid[v]) IN
            /\ store' = StoreRemove(store, vacct[v], v)
            /\ IF room = None
               THEN /\ pc' = [pc EXCEPT ![v] = "done"]
                    /\ UNCHANGED <<clients, emptied, discCalls, kroom, log>>
               ELSE /\ log' = IF SendSkipped(closed', v) THEN log
                              ELSE Enqueue(log, v, ControlEvent(LeaveName(FALSE), RoomUid(room), 0), "ok")
                    /\ clients' = [clients EXCEPT ![room] = ClientsPop(@, {v})]
                    /\ emptied' = IF v \in Members(room) /\ clients'[room] = <<>>
                                  THEN emptied \cup {room} ELSE emptied
                    /\ IF ClientCount(clients', room) > 0
                       THEN /\ pc' = [pc EXCEPT ![v] = "done"]
                            /\ UNCHANGED <<discCalls, kroom>>
                       ELSE /\ pc' = [pc EXCEPT ![v] = "killing"]
                            /\ kroom' = [kroom EXCEPT ![v] = room]
                            /\ discCalls' = [discCalls EXCEPT ![room] = @ + 1]
    /\ UNCHANGED call
    /\ UNCHANGED <<vuid, vacct, err, out, croom, rooms, conn, discErr, tasks,
                   ntask, sweep, nfail>>

\* The pop is inside the try: a raise from kill skips it.
RoomsAfterKillInTry(rs, uid, ok) == IF ok THEN RoomsPop(rs, uid) ELSE rs

\* pool.py:105-112 the registry after kill returned (ok) or raised: the bare
\* except drops the exception and the pop follows the try statement.
RoomsAfterKill(rs, uid, ok) == RoomsPop(rs, uid)

\* room.py:331 disconnect returned (ok) or raised; pool.py:106-112 a raise is
\* logged and dropped, and the entry under the room's unique_id is popped.
KillDone(v, ok) ==
    /\ pc[v] = "killing"
    /\ MayDisconnect(ok)
    /\ nfail' = IF ok THEN nfail ELSE nfail + 1
    /\ conn' = IF ok THEN [conn EXCEPT ![kroom[v]] = "disconnected"] ELSE conn
    /\ discErr' = IF ok THEN discErr ELSE discErr \cup {kroom[v]}
    /\ rooms' = RoomsAfterKill(rooms, RoomUid(kroom[v]), ok)
    /\ pc' = [pc EXCEPT ![v] = "done"]
    /\ kroom' = [kroom EXCEPT ![v] = None]
    /\ UNCHANGED call
    /\ UNCHANGED <<vuid, vacct, err, out, croom, closed, log, clients, discCalls,
                   emptied, store, tasks, ntask, sweep>>

\* ------------------------------------------------- upstream event handlers
RECURSIVE OpenSuffix(_, _)
\* room.py:198-199 inside the handlers' loops: the clients at the head of the
\* iteration whose WebSocket is closed are passed without a suspension; the
\* result starts at the first client the handler really sends to.
OpenSuffix(q, cl) ==
    IF q = <<>> THEN <<>>
    ELSE IF SendSkipped(cl, Head(q)) THEN OpenSuffix(Tail(q), cl) ELSE q

\* room.py:154-165 (event_forwarder) and room.py:295-302 (leave, called by
\* end_handler and disconnect_handler): the envelope a handler sends.
HandlerMsg(rec, t) ==
    IF rec.kind = "event"
    THEN TikTokEvent(rec.name, rec.data, RoomUid(rec.room), t)
    ELSE ControlEvent(LeaveName(HandlerEnd(rec.kind)), RoomUid(rec.room), t)

\* room.py:153-165, 174-176, 179-181 one stretch of a handler's loop over its
\* snapshot: q is what is left to visit, popNow the client whose leave just got
\* past its send, cl the WebSocket states, o the outcome of the next send_text.
\* The terminal handlers pop each client they are done with (room.py:305).
RunHandler(t, rec, q, popNow, cl, o) ==
    LET rest == OpenSuffix(q, cl)
        skipped == {q[i] : i \in 1..(Len(q) - Len(rest))}
        gone == IF rec.kind = "event" THEN {} ELSE popNow \cup skipped
    IN  /\ clients' = [clients EXCEPT ![rec.room] = ClientsPop(@, gone)]
        /\ IF rest = <<>>
           THEN /\ o = "ok"
                /\ tasks' = [tasks EXCEPT ![t] =
                       [rec EXCEPT !.st = "done", !.queue = <<>>, !.cur = None,
                                   !.out = "ok", !.clean = @ /\ skipped = {}]]
                /\ UNCHANGED <<log, nfail>>
           ELSE /\ tasks' = [tasks EXCEPT ![t] =
                       [rec EXCEPT !.st = "sending", !.queue = Tail(rest),
                                   !.cur = Head(rest), !.out = o,
                                   !.clean = @ /\ skipped = {} /\ o = "ok"]]
                /\ log' = Enqueue(log, Head(rest), HandlerMsg(rec, t), o)
                /\ nfail' = IF o = "ok" THEN nfail ELSE nfail + 1

\* A new handler invocation over the room's current clients (room.py:153,175,180).
NewTask(kind, r, name, data) ==
    [IdleTask EXCEPT !.kind = kind, !.room = r, !.name = name, !.data = data,
                     !.snap = Snapshot(clients[r])]

\* room.py:150-171 the connection emits a domain event: event_forwarder starts.
UpstreamEvent(r, e, o) ==
    /\ conn[r] = "connected"
    /\ NumTasks({"event"}) < MaxEvents
    /\ MayEnd(o)
    /\ ntask' = ntask + 1
    /\ RunHandler(ntask + 1, NewTask("event", r, e.name, e.data), Snapshot(clients[r]), {}, closed, o)
    /\ UNCHANGED call
    /\ UNCHANGED <<pc, vuid, vacct, err, out, kroom, croom, closed, rooms, conn,
                   discCalls, discErr, emptied, store, sweep>>

\* room.py:173-176,184 the connection emits LiveEndEvent: end_handler starts.
UpstreamEnd(r, o) ==
    /\ conn[r] = "connected"
    /\ NumTasks({"end", "disconnect"}) < MaxEnds
    /\ MayEnd(o)
    /\ ntask' = ntask + 1
    /\ RunHandler(ntask + 1, NewTask("end", r, "", ""), Snapshot(clients[r]), {}, closed, o)
    /\ UNCHANGED call
    /\ UNCHANGED <<pc, vuid, vacct, err, out, kroom, croom, closed, rooms, conn,
                   discCalls, discErr, emptied, store, sweep>>

\* room.py:178-181,185 the connection is lost and emits DisconnectEvent:
\* disconnect_handler starts.
UpstreamDisconnect(r, o) ==
    /\ conn[r] = "connected"
    /\ NumTasks({"end", "disconnect"}) < MaxEnds
    /\ MayEnd(o)
    /\ ntask' = ntask + 1
    /\ conn' = [conn EXCEPT ![r] = "disconnected"]
    /\ RunHandler(ntask + 1, NewTask("disconnect", r, "", ""), Snapshot(clients[r]), {}, closed, o)
    /\ UNCHANGED call
    /\ UNCHANGED <<pc, vuid, vacct, err, out, kroom, croom, closed, rooms,
                   discCalls, discErr, emptied, store, sweep>>

\* The loop runs over the live dict: clients added since it began are visited.
HandlerQueueLive(rec, cs) ==
    rec.queue \o SelectSeq(cs[rec.room],
                           LAMBDA c : c # rec.cur /\ \A i \in 1..Len(rec.snap) : rec.snap[i] # c)

\* room.py:108-109,153,175,180 what a suspended handler has left to visit: the
\* rest of the copy of the clients it took when it began, whatever the room's
\* clients (cs) are by now.
HandlerQueue(rec, cs) == rec.queue

\* room.py:202-207 the send_text a handler was suspended in ended.  A raise that
\* _send_message does not catch leaves the handler (and, in the terminal
\* handlers, leave before its pop); otherwise the loop goes on.
TaskResume(t, o) ==
    /\ tasks[t].st = "sending"
    /\ MayEnd(o)
    /\ closed' = MarkClosed(closed, tasks[t].cur, tasks[t].out)
    /\ IF SendRaises(tasks[t].out)
       THEN /\ o = "ok"
            /\ tasks' = [tasks EXCEPT ![t].st = "raised", ![t].out = "ok"]
            /\ UNCHANGED <<clients, log, nfail>>
       ELSE RunHandler(t, tasks[t], HandlerQueue(tasks[t], clients), {tasks[t].cur}, closed', o)
    /\ UNCHANGED call
    /\ UNCHANGED <<pc, vuid, vacct, err, out, kroom, croom, rooms, conn,
                   discCalls, discErr, emptied, store, ntask, sweep>>

\* ---------------------------------------------------------- _clean_up_loop
RECURSIVE EmptySuffix(_, _)
\* pool.py:99-101 inside the loop of pool.py:122-123: clean_up_room returns at
\* once for a room that has clients; the result starts at the first empty room.
EmptySuffix(q, cs) ==
    IF q = <<>> THEN <<>>
    ELSE IF ClientCount(cs, Head(q)) > 0 THEN EmptySuffix(Tail(q), cs) ELSE q

\* The exception of a failed kill leaves the for loop: the pass is over.
SweepRestAbort(q, ok) == IF ok THEN q ELSE <<>>

\* pool.py:122-123 what is left of the pass after clean_up_room returned:
\* clean_up_room raises nothing (pool.py:105-109), so the for loop goes on.
SweepRest(q, ok) == q

\* pool.py:122-125 and 99-107 the loop over the snapshot up to the next await:
\* kill's disconnect on the next empty room, or the sleep when none is left.
\* bad is the set of rooms whose kill raised so far in this pass.
SweepRun(q, bad) ==
    LET rest == EmptySuffix(q, clients)
    IN  IF rest = <<>>
        THEN /\ sweep' = [pc |-> "sleep", queue |-> <<>>, cur |-> None, bad |-> {}]
             /\ UNCHANGED discCalls
        ELSE /\ sweep' = [pc |-> "killing", queue |-> Tail(rest), cur |-> Head(rest),
                          bad |-> bad]
             /\ discCalls' = [discCalls EXCEPT ![Head(rest)] = @ + 1]

\* pool.py:120-125 the sleep ended: a pass over a copy of the registry starts.
SweepTick ==
    /\ sweep.pc = "sleep"
    /\ SweepRun(RoomsValues(rooms), {})
    /\ UNCHANGED call
    /\ UNCHANGED <<pc, vuid, vacct, err, out, kroom, croom, closed, log, rooms, conn,
                   clients, discErr, emptied, store, tasks, ntask, nfail>>

\* room.py:331, pool.py:106-112, 122-123 the sweep's disconnect returned or
\* raised; the entry is popped and the pass goes on.
SweepKillDone(ok) ==
    /\ sweep.pc = "killing"
    /\ MayDisconnect(ok)
    /\ nfail' = IF ok THEN nfail ELSE nfail + 1
    /\ conn' = IF ok THEN [conn EXCEPT ![sweep.cur] = "disconnected"] ELSE conn
    /\ discErr' = IF ok THEN discErr ELSE discErr \cup {sweep.cur}
    /\ rooms' = RoomsAfterKill(rooms, RoomUid(sweep.cur), ok)
    /\ SweepRun(SweepRest(sweep.queue, ok), IF ok THEN sweep.bad ELSE sweep.bad \cup {sweep.cur})
    /\ UNCHANGED call
    /\ UNCHANGED <<pc, vuid, vacct, err, out, kroom, croom, closed, log,
                   clients, emptied, store, tasks, ntask>>

\* ------------------------------------------------------------------ Next
Next ==
    \/ \E v \in Active, uid \in StreamIds, a \in Accounts, o \in Outcomes : Connect(v, uid, a, o)
    \/ \E v \in Viewers, live \in BOOLEAN : IsLiveDone(v, live)
    \/ \E v \in Viewers, ok \in BOOLEAN, o \in Outcomes : StartDone(v, ok, o)
    \/ \E v \in Viewers : JoinSendDone(v)
    \/ \E v \in Viewers : ViewerDisconnect(v)
    \/ \E v \in Viewers, ok \in BOOLEAN : KillDone(v, ok)
    \/ \E r \in Viewers, e \in DomainEvents, o \in Outcomes : UpstreamEvent(r, e, o)
    \/ \E r \in Viewers, o \in Outcomes : UpstreamEnd(r, o)
    \/ \E r \in Viewers, o \in Outcomes : UpstreamDisconnect(r, o)
    \/ \E t \in Tasks, o \in Outcomes : TaskResume(t, o)
    \/ SweepTick
    \/ \E ok \in BOOLEAN : SweepKillDone(ok)

Spec == Init /\ [][Next]_vars

\* The disconnect a leave awaits returns or raises in the end (room.py:331);
\* the leaves are those of the viewers that connect.
FairSpec ==
    /\ Spec
    /\ \A v \in Active : WF_vars(\E ok \in BOOLEAN : KillDone(v, ok))

\* The same for the sweep's disconnect; and the sweep's sleep ends (pool.py:125).
SweepFairSpec ==
    /\ Spec
    /\ WF_vars(\E ok \in BOOLEAN : SweepKillDone(ok))
    /\ WF_vars(SweepTick)

\* Joins and leaves of up to MaxCrowd viewers while the upstream connections
\* emit nothing and the clean-up loop sleeps: the runs of JoinLeaveSpec are
\* runs of the program in which the handlers and the sweep take no step.
JoinLeaveNext ==
    \/ \E v \in Viewers, uid \in StreamIds, a \in Accounts, o \in Outcomes : Connect(v, uid, a, o)
    \/ \E v \in Viewers, live \in BOOLEAN : IsLiveDone(v, live)
    \/ \E v \in Viewers, ok \in BOOLEAN, o \in Outcomes : StartDone(v, ok, o)
    \/ \E v \in Viewers : JoinSendDone(v)
    \/ \E v \in Viewers : ViewerDisconnect(v)
    \/ \E v \in Viewers, ok \in BOOLEAN : KillDone(v, ok)

JoinLeaveSpec == Init /\ [][JoinLeaveNext]_vars

\* ------------------------------------------------------- TikTokRoom.kill
\* room.py:327-331 one stretch of kill: the forced leaves over the copy of the
\* clients (the loop of RunHandler with end=True), and, once the last leave
\* has returned, the call of connection.disconnect, in which kill suspends.
KillRun(t, rec, q, popNow, cl, o) ==
    /\ RunHandler(t, rec, q, popNow, cl, o)
    /\ discCalls' = IF tasks'[t].st = "done"
                    THEN [discCalls EXCEPT ![rec.room] = @ + 1] ELSE discCalls

\* room.py:318-331 TikTokRoom.kill called on a connected room as it stands.
\* clean_up_room calls kill on empty rooms only (pool.py:100-106), so the
\* forced leaves of kill run only when kill is called directly, as here.
KillCall(r, o) ==
    /\ conn[r] = "connected"
    /\ NumTasks({"kill"}) < MaxKills
    /\ MayEnd(o)
    /\ ntask' = ntask + 1
    /\ KillRun(ntask + 1, NewTask("kill", r, "", ""), Snapshot(clients[r]), {}, closed, o)
    /\ UNCHANGED call
    /\ UNCHANGED <<pc, vuid, vacct, err, out, kroom, croom, closed, rooms, conn,
                   discErr, emptied, store, sweep>>

\* room.py:202-207,305,327-328 the send_text of a forced leave ended: a raise
\* that _send_message does not catch leaves leave and kill; otherwise the
\* client is popped and kill goes on.
KillResume(t, o) ==
    /\ tasks[t].kind = "kill" /\ tasks[t].st = "sending"
    /\ MayEnd(o)
    /\ closed' = MarkClosed(closed, tasks[t].cur, tasks[t].out)
    /\ IF SendRaises(tasks[t].out)
       THEN /\ o = "ok"
            /\ tasks' = [tasks EXCEPT ![t].st = "raised", ![t].out = "ok"]
            /\ UNCHANGED <<clients, log, nfail, discCalls>>
       ELSE KillRun(t, tasks[t], HandlerQueue(tasks[t], clients), {tasks[t].cur}, closed', o)
    /\ UNCHANGED call
    /\ UNCHANGED <<pc, vuid, vacct, err, out, kroom, croom, rooms, conn,
                   discErr, emptied, store, ntask, sweep>>

\* room.py:331 kill's disconnect returned or raised.
KillDisconnectDone(t, ok) ==
    /\ tasks[t].kind = "kill" /\ tasks[t].st = "done"
    /\ MayDisconnect(ok)
    /\ nfail' = IF ok THEN nfail ELSE nfail + 1
    /\ conn' = IF ok THEN [conn EXCEPT ![tasks[t].room] = "disconnected"] ELSE conn
    /\ discErr' = IF ok THEN discErr ELSE discErr \cup {tasks[t].room}
    /\ tasks' = [tasks EXCEPT ![t].st = IF ok THEN "returned" ELSE "raised"]
    /\ UNCHANGED call
    /\ UNCHANGED <<pc, vuid, vacct, err, out, kroom, croom, closed, log, rooms,
                   clients, discCalls, emptied, store, ntask, sweep>>

\* Viewers join rooms as in the program, and TikTokRoom.kill is called on a
\* room with whatever clients it has.
KillNext ==
    \/ \E v \in Active, uid \in StreamIds, a \in Accounts, o \in Outcomes : Connect(v, uid, a, o)
    \/ \E v \in Viewers, live \in BOOLEAN : IsLiveDone(v, live)
    \/ \E v \in Viewers, ok \in BOOLEAN, o \in Outcomes : StartDone(v, ok, o)
    \/ \E v \in Viewers : JoinSendDone(v)
    \/ \E r \in Viewers, o \in Outcomes : KillCall(r, o)
    \/ \E t \in Tasks, o \in Outcomes : KillResume(t, o)
    \/ \E t \in Tasks, ok \in BOOLEAN : KillDisconnectDone(t, ok)

KillSpec == Init /\ [][KillNext]_vars

\* ------------------------------------------------------------ ClientStore
\* Number of RoomClients in the store, over all accounts.
StoreSize(st) == Cardinality(UNION {{<<a, i>> : i \in 1..Len(st[a])} : a \in DOMAIN st})

\* client_store.py:13-18 ClientStore.add called with any account and client.
StoreAddCall(a, c) ==
    /\ StoreSize(store) < MaxStore
    /\ store' = StoreAdd(store, a, c)
    /\ call' = [op |-> "add", account |-> a, client |-> c, known |-> a \in DOMAIN store]
    /\ UNCHANGED <<pc, vuid, vacct, err, out, kroom, croom, closed, log, rooms, conn,
                   clients, discCalls, discErr, emptied, tasks, ntask, sweep, nfail>>

\* client_store.py:20-28 ClientStore.remove called with any account and
\* client; list.remove raises before anything is changed when the client is
\* not in the account's list.
StoreRemoveCall(a, c) ==
    /\ store' = IF StoreRemoveRaises(store, a, c) THEN store ELSE StoreRemove(store, a, c)
    /\ call' = [op |-> "remove", account |-> a, client |-> c, known |-> a \in DOMAIN store]
    /\ UNCHANGED <<pc, vuid, vacct, err, out, kroom, croom, closed, log, rooms, conn,
                   clients, discCalls, discErr, emptied, tasks, ntask, sweep, nfail>>

\* Any sequence of add and remove calls on the store made at start-up.
StoreNext ==
    \/ \E a \in Accounts, c \in Viewers : StoreAddCall(a, c)
    \/ \E a \in Accounts, c \in Viewers : StoreRemoveCall(a, c)

StoreSpec == Init /\ [][StoreNext]_vars

\* ---------------------------------------------------------------- claims
InRegistry(r) == RoomsGet(rooms, RoomUid(r)) = r

Attached(c) == \E r \in Viewers : c \in Members(r)

Listed(c) == \E a \in DOMAIN store : \E i \in 1..Len(store[a]) : store[a][i] = c

SnapSet(t) == {tasks[t].snap[i] : i \in 1..Len(tasks[t].snap)}

\* The frames WebSocket c got from handler invocation t, in order.
FramesFrom(c, t) == SelectSeq(log[c], LAMBDA m : m.src = t)

Left(v) == pc[v] \in {"killing", "done", "leave_raised"}

\* C1: joins to one stream_id with no leave (and no teardown) in between make at
\* most one upstream session: never two connected rooms for the same stream_id.
C1_AtMostOneSession ==
    \A s \in StreamIds :
        LET made == {r \in Viewers : conn[r] # "none" /\ RoomUid(r) = s}
        IN  (/\ \A v \in Viewers : vuid[v] = s => ~Left(v)
             /\ \A r \in made : discCalls[r] = 0 /\ conn[r] = "connected")
            => Cardinality(made) <= 1

\* C2: once the last subscriber of a room has left through leave, the room's
\* upstream session is eventually disconnected (the disconnect returned, or
\* raised and was dropped) and the room is not in the registry.
\* Rooms carry the names of the viewers that made them.
TornDown(r) == ~InRegistry(r) /\ (conn[r] = "disconnected" \/ r \in discErr)

C2_EventuallyTornDown == \A r \in Active : (r \in emptied) ~> TornDown(r)

C2_Witness == \E r \in emptied : ~InRegistry(r) /\ conn[r] = "disconnected"

\* C3: the upstream session's disconnect is invoked at most once per room.
C3_DisconnectAtMostOnce == \A r \in Viewers : discCalls[r] <= 1

\* C4: for every account the directory's count equals the number of that
\* account's subscribers that are members of some room's client set.
C4_DirectoryCountsAttached ==
    \A a \in Accounts :
        StoreCount(store, a) = Cardinality({c \in Viewers : vacct[c] = a /\ Attached(c)})

\* C5: after Gateway.leave has returned for a subscriber a join gave out, the
\* subscriber is neither in the directory nor in any room's client set.
C5_LeftEverywhere == \A v \in Viewers : pc[v] = "done" => ~Listed(v) /\ ~Attached(v)

\* C6: a join whose room creation fails raises to its caller and leaves the
\* registry as it was: the failing step changes no entry.
C6_FailedCreateKeepsRegistry ==
    [][\A v \in Viewers :
          (pc[v] \in {"is_live", "starting"} /\ pc'[v] \notin {"is_live", "starting", "join_sending"})
          => /\ pc'[v] = "failed"
             /\ err'[v] \in {"UserOfflineError", "ConnectError"}
             /\ rooms' = rooms]_vars

C6_Witness ==
    \E v \in Viewers : pc[v] = "failed" /\ err[v] = "ConnectError" /\ rooms # <<>>

\* C7: a failed Gateway.join is handled by the Gateway (the channel is closed
\* with code 4500 and no subscriber is returned): nothing is raised to the
\* caller.  The code has no close call to record; what is left of the claim is
\* that no exception leaves ws_manager.join.
C7_GatewayHandlesFailure == \A v \in Viewers : pc[v] = "failed" => err[v] = "none"

\* C8: a broadcast over a room of k members in which no send fails and no
\* channel is closed delivers exactly one tiktok_event envelope to each of the
\* k members, with the event's name and payload, and none to anyone else.
C8_BroadcastExactlyOnce ==
    \A t \in Tasks :
        (tasks[t].kind = "event" /\ tasks[t].st = "done" /\ tasks[t].clean)
        => \A c \in Viewers :
               IF c \in SnapSet(t)
               THEN /\ Len(FramesFrom(c, t)) = 1
                    /\ FramesFrom(c, t)[1].type = "tiktok_event"
                    /\ FramesFrom(c, t)[1].name = tasks[t].name
                    /\ FramesFrom(c, t)[1].data = tasks[t].data
                    /\ tasks[t].data \in {e.data : e \in DomainEvents}
               ELSE FramesFrom(c, t) = <<>>

C8_Witness ==
    \E t \in Tasks :
        /\ tasks[t].kind = "event" /\ tasks[t].st = "done" /\ tasks[t].clean
        /\ Len(tasks[t].snap) = 2
        /\ \A c \in SnapSet(t) : Len(FramesFrom(c, t)) = 1

\* C9: a send failure on one subscriber's channel does not raise out of the
\* broadcast handler, and every other subscriber of the snapshot whose channel
\* is open gets the envelope.
C9_BroadcastIsolatesFailures ==
    \A t \in Tasks :
        (tasks[t].kind = "event" /\ tasks[t].st \in {"done", "raised"})
        => /\ tasks[t].st = "done"
           /\ \A c \in SnapSet(t) : ~closed[c] => Len(FramesFrom(c, t)) = 1

\* C10: after either terminal event (LiveEndEvent, DisconnectEvent) has been
\* handled with no send failing and no channel closed, every subscriber of the
\* snapshot was sent a control envelope named "end" and is out of the room.
C10_TerminalEventsSendEnd ==
    \A t \in Tasks :
        (tasks[t].kind \in {"end", "disconnect"} /\ tasks[t].st = "done" /\ tasks[t].clean)
        => \A c \in SnapSet(t) :
               /\ Len(FramesFrom(c, t)) = 1
               /\ FramesFrom(c, t)[1].type = "room_event"
               /\ FramesFrom(c, t)[1].name = "end"
               /\ c \notin Members(tasks[t].room)

\* C11: on every channel the join control envelope comes before every
\* domain-event envelope: a join envelope is only ever the first frame of its
\* channel, and, while no send has failed, a channel that holds any frame holds
\* its subscriber's join envelope first.
C11_JoinBeforeEvents ==
    \A c \in Viewers :
        /\ \A i \in 1..Len(log[c]) : log[c][i].name = "join" => i = 1
        /\ (nfail = 0 /\ log[c] # <<>>)
           => log[c][1].type = "room_event" /\ log[c][1].name = "join"

\* A subscriber whose join send is still suspended in send_text when a
\* broadcast that started after it joined enqueues its envelope behind the join
\* envelope.
C11_Witness ==
    \E c \in Viewers :
        /\ pc[c] = "join_sending"
        /\ Len(log[c]) = 2
        /\ log[c][1].name = "join"
        /\ log[c][2].type = "tiktok_event"
\* C12: leave for a subscriber that is in no room's client set raises nothing
\* and is a no-op.  Stated over the step in which the endpoint calls
\* ws_manager.leave: the call returns without raising and without starting a
\* teardown (which would end in a pop from the registry), and the registry, the
\* client sets and the channels' frames are as before.
C12_LeaveOfNonMemberIsNoOp ==
    [][\A v \in Viewers :
          (pc[v] = "attached" /\ pc'[v] # "attached" /\ ~Attached(v))
          => /\ pc'[v] = "done"
             /\ rooms' = rooms
             /\ clients' = clients
             /\ discCalls' = discCalls
             /\ log' = log]_vars
\* C13: when the kill of an empty room fails, clean_up_room still removes the
\* room from the registry and nothing is raised to its caller: in the step in
\* which a disconnect raises, the room leaves the registry, a leave that was
\* waiting for it returns normally and the sweep goes on.
C13_FailedKillStillRemoves ==
    [][\A r \in Viewers :
          (r \notin discErr /\ r \in discErr')
          => /\ RoomsGet(rooms', RoomUid(r)) = None
             /\ \A v \in Viewers : pc'[v] # pc[v] => pc[v] = "killing" /\ pc'[v] = "done"
             /\ sweep'.pc \in {"sleep", "killing"}]_vars

\* A room whose disconnect raised, out of the registry, its leave returned.
C13_Witness ==
    \E r \in discErr :
        /\ ~InRegistry(r) /\ conn[r] = "connected"
        /\ \E v \in Viewers : croom[v] = r /\ pc[v] = "done"
\* The rooms of sequence q.
Elems(q) == {q[i] : i \in 1..Len(q)}

\* C14: a kill that fails during a sweep pass does not end the pass or the
\* loop.  In the step in which the sweep's disconnect raises, the pass goes on
\* with the rest of its snapshot: it starts the kill of the next room of the
\* snapshot that is empty, or, when none of them is empty, goes to sleep for the
\* next pass; and a pass that is waiting for a disconnect always gets to that
\* sleep.
C14_SweepSurvivesFailure ==
    /\ [][(sweep.pc = "killing" /\ sweep' # sweep /\ nfail' = nfail + 1)
          => \/ /\ sweep'.pc = "sleep"
                /\ \A r \in Elems(sweep.queue) : ClientCount(clients, r) > 0
             \/ /\ sweep'.pc = "killing"
                /\ \E i \in 1..Len(sweep.queue) :
                       /\ sweep'.cur = sweep.queue[i]
                       /\ ClientCount(clients, sweep.queue[i]) = 0
                       /\ \A j \in 1..(i - 1) : ClientCount(clients, sweep.queue[j]) > 0
                       /\ sweep'.queue = SubSeq(sweep.queue, i + 1, Len(sweep.queue))
                       /\ discCalls'[sweep.queue[i]] = discCalls[sweep.queue[i]] + 1]_vars
    /\ (sweep.pc = "killing") ~> (sweep.pc = "sleep")

\* A pass in which one kill raised and which is now killing the next empty
\* room of its snapshot.
C14_Witness ==
    /\ sweep.pc = "killing"
    /\ sweep.bad # {}
    /\ sweep.cur \notin sweep.bad
    /\ \A r \in sweep.bad : ~InRegistry(r)
\* C15: a broadcast sends only to the clients of the copy it took when it
\* began.  No channel outside the copy ever holds a frame of that broadcast,
\* and a client that joined the room while the broadcast was suspended has, in
\* a run without a failed send, its join envelope as its first frame.
C15_BroadcastUsesSnapshot ==
    \A t \in Tasks :
        tasks[t].kind = "event"
        => \A c \in Viewers \ SnapSet(t) :
               /\ FramesFrom(c, t) = <<>>
               /\ (c \in Members(tasks[t].room) /\ nfail = 0 /\ pc[c] = "attached")
                  => (log[c] # <<>> /\ log[c][1].name = "join" /\ log[c][1].src = 0)

\* A broadcast still suspended on a send to a member of its copy, and a client
\* that joined the room since: it holds its join envelope and nothing else.
C15_Witness ==
    \E t \in Tasks : \E c \in Viewers :
        /\ tasks[t].kind = "event" /\ tasks[t].st = "sending"
        /\ tasks[t].snap # <<>>
        /\ c \notin SnapSet(t) /\ c \in Members(tasks[t].room)
        /\ Len(log[c]) = 1 /\ log[c][1].name = "join"
\* Room r was emptied by end_handler or disconnect_handler, not by a leave, is
\* still the registry's room for its stream, and no join for that stream is
\* under way.
ForcedEmpty(r) ==
    /\ InRegistry(r) /\ clients[r] = <<>> /\ r \notin emptied
    /\ \E t \in Tasks : /\ tasks[t].kind \in {"end", "disconnect"} /\ tasks[t].room = r
                        /\ tasks[t].st = "done" /\ tasks[t].snap # <<>>
    /\ \A v \in Viewers : vuid[v] = RoomUid(r) => pc[v] \notin {"is_live", "starting"}

\* The claim as a progress property: a room emptied by a forced release is,
\* unless a new join puts a client into it, eventually killed (its disconnect
\* invoked) and out of the registry.
ForcedEmptyEventuallySwept ==
    \A r \in Viewers :
        ForcedEmpty(r) ~> ((~InRegistry(r) /\ discCalls[r] >= 1) \/ clients[r] # <<>>)

\* C16: a room emptied by a forced release is killed by a later sweep pass and
\* then removed.  The sweep only sees rooms of the registry, so the room must
\* not leave the registry before its disconnect was invoked: a room that a
\* terminal handler emptied and that is out of the registry has been killed.
C16_SweepCatchesForcedEmpty ==
    \A r \in Viewers :
        (/\ \E t \in Tasks : /\ tasks[t].kind \in {"end", "disconnect"} /\ tasks[t].room = r
                             /\ tasks[t].st = "done" /\ tasks[t].snap # <<>>
         /\ clients[r] = <<>> /\ r \notin emptied
         /\ ~InRegistry(r))
        => discCalls[r] >= 1
\* C17: a leave that is not the last one leaves the room in place.  In the
\* step in which the endpoint of x calls leave while x and another client y
\* are members of room r: r is the registry's room for its stream afterwards,
\* r has exactly one member less, no disconnect has been invoked on r, its
\* connection is as before, and y's channel got no frame.
C17_NonLastLeaveKeepsRoom ==
    [][\A r \in Viewers : \A x \in Members(r) : \A y \in Members(r) \ {x} :
          (pc[x] = "attached" /\ pc'[x] # "attached")
          => /\ RoomsGet(rooms', RoomUid(r)) = r
             /\ Len(clients'[r]) = Len(clients[r]) - 1
             /\ discCalls'[r] = 0
             /\ conn'[r] = conn[r]
             /\ log'[y] = log[y]]_vars
\* C18: room.leave always ends with the client out of the room's client set,
\* whatever its send did, and a send error never leaves it.  Over the terminal
\* handlers, which call leave on each client of their copy: once a handler is
\* no longer suspended, it has not ended by an exception, and every client
\* whose leave it called is out of the room.
C18_LeaveAlwaysRemoves ==
    \A t \in Tasks :
        (tasks[t].kind \in {"end", "disconnect"} /\ tasks[t].st \in {"done", "raised"})
        => /\ tasks[t].st = "done"
           /\ \A c \in SnapSet(t) \ Elems(tasks[t].queue) : c \notin Members(tasks[t].room)
\* C19: kill orders its steps.  While kill is suspended in a forced leave, it
\* has not invoked the upstream disconnect; once it has, its forced leaves are
\* all over: every client of the copy kill took when it began is out of the
\* room's client set, each of them got from kill nothing but one control
\* envelope named "end" (none if its channel was closed or its send failed),
\* and kill has no client left to visit.
C19_KillLeavesThenDisconnects ==
    \A t \in Tasks :
        tasks[t].kind = "kill"
        => /\ (tasks[t].st = "sending" /\ \A u \in Tasks \ {t} : tasks[u].room # tasks[t].room)
              => discCalls[tasks[t].room] = 0
           /\ tasks[t].st \in {"done", "returned"}
              => /\ discCalls[tasks[t].room] >= 1
                 /\ tasks[t].queue = <<>>
                 /\ \A c \in SnapSet(t) :
                        /\ c \notin Members(tasks[t].room)
                        /\ Len(FramesFrom(c, t)) <= 1
                        /\ tasks[t].clean => Len(FramesFrom(c, t)) = 1
                        /\ \A i \in 1..Len(FramesFrom(c, t)) :
                               /\ FramesFrom(c, t)[i].type = "room_event"
                               /\ FramesFrom(c, t)[i].name = "end"

\* kill of a room with two clients is suspended in disconnect: both got "end".
C19_Witness ==
    \E t \in Tasks :
        /\ tasks[t].kind = "kill" /\ tasks[t].st = "done" /\ tasks[t].clean
        /\ discCalls[tasks[t].room] = 1
        /\ Len(tasks[t].snap) = 2
        /\ \A c \in SnapSet(t) : Len(FramesFrom(c, t)) = 1 /\ c \notin Members(tasks[t].room)
\* C20: after any sequence of add and remove calls no account of the store
\* has an empty list and the count of an account without an entry is 0; a
\* remove that takes the last client of an account deletes the account's entry
\* in that call, and a remove for an account without an entry changes nothing.
C20_NoEmptyAccount ==
    /\ [](/\ \A a \in DOMAIN store : store[a] # <<>>
          /\ \A a \in Accounts \ DOMAIN store : StoreCount(store, a) = 0)
    /\ [][call'.op = "remove"
          => /\ call'.account \notin DOMAIN store => store' = store
             /\ (call'.account \in DOMAIN store /\ store[call'.account] = <<call'.client>>)
                => call'.account \notin DOMAIN store']_vars

\* The last call removed the only client of a listed account (another account
\* is still listed): the account has no entry and counts 0.
C20_Witness ==
    /\ call.op = "remove" /\ call.known
    /\ call.account \notin DOMAIN store
    /\ StoreCount(store, call.account) = 0
    /\ DOMAIN store # {}
\* The upstream session of room r is over: its connection was disconnected
\* (by kill or by the loss of the connection), or it emitted LiveEndEvent.
Dead(r) ==
    \/ conn[r] = "disconnected"
    \/ \E t \in Tasks : tasks[t].kind = "end" /\ tasks[t].room = r

\* No join, leave or kill that touches room r or its stream is in flight: no
\* endpoint of that stream is inside create, a join send or a kill, no handler
\* of r is suspended in a leave, and the sweep is not killing a room.
Quiet(r) ==
    /\ \A v \in Viewers :
           vuid[v] = RoomUid(r) => pc[v] \in {"attached", "done", "failed", "leave_raised"}
    /\ \A t \in Tasks : tasks[t].room = r => tasks[t].st # "sending"
    /\ sweep.pc = "sleep"

\* C21: whenever a client is a member of a room's client set and no join,
\* leave or kill touching the room is in flight, the room is the registry's
\* room for its stream and its upstream session is neither disconnected nor
\* ended.  Stated for runs in which no send and no disconnect has failed and
\* for rooms that are the only room ever made for their stream.
C21_AttachedRoomIsLive ==
    \A r \in Viewers :
        (/\ Members(r) # {} /\ Quiet(r) /\ nfail = 0
         /\ \A q \in Viewers \ {r} : conn[q] = "none" \/ RoomUid(q) # RoomUid(r))
        => (InRegistry(r) /\ ~Dead(r))
\* The kill of room q that a leave or the sweep was suspended in ends in this
\* step.
KillEnds(q) ==
    \/ \E v \in Viewers : pc[v] = "killing" /\ pc'[v] # "killing" /\ kroom[v] = q
    \/ sweep.pc = "killing" /\ sweep' # sweep /\ sweep.cur = q

\* C22: clean_up_room removes from the registry no room other than the one it
\* killed: in a step in which a kill ends, every room that was the registry's
\* room for its stream and is not the killed one still is.
C22_CleanupPopsOnlyKilledRoom ==
    [][\A k \in Viewers : KillEnds(k)
          => \A q \in Viewers \ {k} :
                 InRegistry(q) => RoomsGet(rooms', RoomUid(q)) = q]_vars
\* C23: the leave/end control envelope is the last envelope a client gets
\* from its room: no domain-event envelope follows it on the channel.  Stated
\* for runs in which no send has failed.
C23_ControlEnvelopeIsLast ==
    \A c \in Viewers : \A i \in 1..Len(log[c]) : \A j \in (i + 1)..Len(log[c]) :
        (/\ nfail = 0
         /\ log[c][i].type = "room_event" /\ log[c][i].name \in {"leave", "end"})
        => log[c][j].type # "tiktok_event"
====
